---------------------------- MODULE Spec2Model ----------------------------
(***************************************************************************)
(* Model of create_icons.py: a script that probes for PIL and then either  *)
(* renders and saves two icons (primary path) or writes two placeholder    *)
(* PNG headers byte by byte (fallback path, create_simple_png).            *)
(*                                                                         *)
(* One action per statement of the script.  The environment of a run is    *)
(* whether the PIL import succeeds and the state of the output directory   *)
(* teams-package/ and of the two files in it.                              *)
(***************************************************************************)
EXTENDS Integers, Sequences, FiniteSets, TLC

VARIABLES
    pc,       \* the statement the interpreter is at
    status,   \* "running" | "exit0" | "error" (unhandled exception)
    pil,      \* whether `from PIL import ...` succeeds in this run
    dir,      \* teams-package/: "ok" | "readonly" | "missing"
    files,    \* path -> file record (exists, writable, kind, bytes, image)
    frame,    \* the active call of create_simple_png (its arguments, f's position)
    img,      \* the color canvas (line 33)
    img2,     \* the outline canvas (line 45)
    out,      \* the lines printed by this run
    ev,       \* history: the operations this run has executed, in order
    written,  \* history: the paths this run has finished writing
    before,   \* history: the files as they were when this run started
    prev,     \* history: how the previous run ended (status, pil, files)
    run       \* the number of this run (process invocation)

vars == <<pc, status, pil, dir, files, frame, img, img2, out, ev, written, before, prev, run>>

(* ------------------------------ bounds --------------------------------- *)

\* Number of successive invocations of the script that are explored.
MaxRuns == 2

\* A stale file may be this many bytes longer than a placeholder.
MaxExtra == 2

(* --------------------------- program constants -------------------------- *)

ColorPath == "teams-package/color.png"

OutlinePath == "teams-package/outline.png"

Paths == {ColorPath, OutlinePath}

\* '#0078D4'
Blue == <<0, 120, 212>>

\* 'white' on an RGB canvas
WhiteRGB == <<255, 255, 255>>

\* 'white' on an RGBA canvas: opaque
WhiteRGBA == <<255, 255, 255, 255>>

\* color=(0, 0, 0, 0): fully transparent
Transparent == <<0, 0, 0, 0>>

(* ------------------------------- images --------------------------------- *)

EmptyPx == [p \in {} |-> <<>>]

NoImage == [mode |-> "none", size |-> <<0, 0>>, bg |-> <<>>, px |-> EmptyPx]

\* Image.new(mode, size, color): a canvas filled with one colour.  The pixels
\* are kept sparsely: px holds the pixels painted since, bg all the others.
ImageNew(mode, size, color) ==
    [mode |-> mode, size |-> size, bg |-> color, px |-> EmptyPx]

Canvas(im) == {<<x, y>> : x \in 0..(im.size[1] - 1), y \in 0..(im.size[2] - 1)}

Pixel(im, p) == IF p \in DOMAIN im.px THEN im.px[p] ELSE im.bg

\* The alpha of a pixel: the fourth band of an RGBA image; an RGB image has none
\* and decodes as opaque.
Alpha(im, p) == IF im.mode = "RGBA" THEN Pixel(im, p)[4] ELSE 255

OnCanvas(im, p) == p[1] \in 0..(im.size[1] - 1) /\ p[2] \in 0..(im.size[2] - 1)

\* Painting is clipped to the canvas.
Paint(im, region, color) ==
    LET S == {p \in region : OnCanvas(im, p)}
    IN  [im EXCEPT !.px = [p \in (DOMAIN im.px) \cup S |->
                              IF p \in S THEN color ELSE im.px[p]]]

\* The pixels of the ellipse inscribed in the bounding box [x0, y0, x1, y1]:
\* (2x - x0 - x1)^2 / w^2 + (2y - y0 - y1)^2 / h^2 <= 1, in integers.
InEllipse(p, box) ==
    LET w == box[3] - box[1]
        h == box[4] - box[2]
        dx == 2 * p[1] - box[1] - box[3]
        dy == 2 * p[2] - box[2] - box[4]
    IN  /\ w > 0 /\ h > 0
        /\ dx * dx * h * h + dy * dy * w * w <= w * w * h * h

BoxPixels(box) == {<<x, y>> : x \in box[1]..box[3], y \in box[2]..box[4]}

\* draw.ellipse(box, fill=color)
EllipseFill(box) == {p \in BoxPixels(box) : InEllipse(p, box)}

\* draw.ellipse(box, outline=color, width=n): the ring between the ellipse of
\* the box and the ellipse of the box shrunk by n on every side.
EllipseOutline(box, n) ==
    LET inner == <<box[1] + n, box[2] + n, box[3] - n, box[4] - n>>
    IN  {p \in BoxPixels(box) : InEllipse(p, box) /\ ~InEllipse(p, inner)}

\* Twice the signed area of the triangle a, b, p.
Cross(a, b, p) == (b[1] - a[1]) * (p[2] - a[2]) - (b[2] - a[2]) * (p[1] - a[1])

Min3(a, b, c) == IF a <= b /\ a <= c THEN a ELSE IF b <= c THEN b ELSE c

Max3(a, b, c) == IF a >= b /\ a >= c THEN a ELSE IF b >= c THEN b ELSE c

\* draw.polygon([a, b, c], fill=color): the pixels inside or on the triangle.
PolygonFill(tri) ==
    LET a == tri[1]
        b == tri[2]
        c == tri[3]
        box == <<Min3(a[1], b[1], c[1]), Min3(a[2], b[2], c[2]),
                 Max3(a[1], b[1], c[1]), Max3(a[2], b[2], c[2])>>
    IN  {p \in BoxPixels(box) :
            \/ Cross(a, b, p) >= 0 /\ Cross(b, c, p) >= 0 /\ Cross(c, a, p) >= 0
            \/ Cross(a, b, p) <= 0 /\ Cross(b, c, p) <= 0 /\ Cross(c, a, p) <= 0}

(* -------------------------------- files --------------------------------- *)

NoFile == [exists |-> FALSE, writable |-> FALSE, kind |-> "none",
           bytes |-> <<>>, image |-> NoImage]

\* A stale file left by something else: shorter or longer than a placeholder.
StaleBytes == {<<1, 2, 3>>, [i \in 1..(45 + MaxExtra) |-> 170]}

StaleFiles ==
    {[exists |-> TRUE, writable |-> w, kind |-> "bytes", bytes |-> b, image |-> NoImage] :
        w \in BOOLEAN, b \in StaleBytes}

\* Whether open(path, 'wb') succeeds: the directory must exist; an existing
\* file must be writable; a new file needs a writable directory.
CanOpen(path) ==
    /\ dir # "missing"
    /\ IF files[path].exists THEN files[path].writable ELSE dir = "ok"

\* Mutant of Truncated: the file is opened without truncation (mode 'r+b').
NotTruncated(path) ==
    [exists |-> TRUE, writable |-> TRUE, kind |-> "bytes",
     bytes |-> files[path].bytes, image |-> NoImage]

\* open(path, 'wb'): the file is created or truncated to length zero.
Truncated(path) ==
    [exists |-> TRUE, writable |-> TRUE, kind |-> "bytes", bytes |-> <<>>, image |-> NoImage]

\* f.write(data) at position pos: the bytes at pos.. are replaced, the file grows as needed.
WriteAt(bytes, pos, data) ==
    SubSeq(bytes, 1, pos) \o data \o SubSeq(bytes, pos + Len(data) + 1, Len(bytes))

(* --------------------------- create_simple_png --------------------------- *)

\* Mutant of PackI: the bytes least significant first (struct.pack('<I', n)).
PackILittle(n) ==
    <<n % 256, (n \div 256) % 256, (n \div 65536) % 256, (n \div 16777216) % 256>>

\* struct.pack('>I', n): four bytes, most significant first.
PackI(n) ==
    <<(n \div 16777216) % 256, (n \div 65536) % 256, (n \div 256) % 256, n % 256>>

\* The reading of four bytes as a big-endian unsigned integer.
UnpackI(b) == ((b[1] * 256 + b[2]) * 256 + b[3]) * 256 + b[4]

\* The k-th f.write of create_simple_png(width, height, color, filename).
Chunk(k, width, height, color) ==
    CASE k = 1 -> <<137, 80, 78, 71, 13, 10, 26, 10>>     \* b'\x89PNG\r\n\x1a\n'
      [] k = 2 -> PackI(13)                                \* chunk length
      [] k = 3 -> <<73, 72, 68, 82>>                       \* b'IHDR'
      [] k = 4 -> PackI(width) \o PackI(height)            \* struct.pack('>II', ...)
      [] k = 5 -> <<8, 2, 0, 0, 0>>                        \* bit depth, color type, ...
      [] k = 6 -> <<0, 0, 0, 0>>                           \* CRC (simplified)
      [] k = 7 -> PackI(0)                                 \* IEND length
      [] k = 8 -> <<73, 69, 78, 68>>                       \* b'IEND'
      [] k = 9 -> <<174, 66, 96, 130>>                     \* b'\xaeB`\x82'

NumChunks == 9

NoFrame == [active |-> FALSE, width |-> 0, height |-> 0, color |-> <<>>,
            filename |-> "", k |-> 0, pos |-> 0, ret |-> ""]

\* Mutant of FallbackCalls: the two calls in the other order.
FallbackCallsSwapped ==
    << [width |-> 32, height |-> 32, color |-> <<255, 255, 255>>, filename |-> OutlinePath],
       [width |-> 192, height |-> 192, color |-> <<0, 120, 212>>, filename |-> ColorPath] >>

\* The two calls of the fallback branch, in order.
FallbackCalls ==
    << [width |-> 192, height |-> 192, color |-> <<0, 120, 212>>, filename |-> ColorPath],
       [width |-> 32, height |-> 32, color |-> <<255, 255, 255>>, filename |-> OutlinePath] >>


(* ------------------------------ the script ------------------------------ *)

Event(op, arg) == [op |-> op, arg |-> arg]

\* The file states a run can find.  A missing directory holds no files.
InitFiles ==
    IF dir = "missing"
    THEN files = [p \in Paths |-> NoFile]
    ELSE files \in [Paths -> {NoFile} \cup StaleFiles]

NoPrev == [status |-> "none", pil |-> FALSE, files |-> [p \in Paths |-> NoFile]]

\* A fresh interpreter: nothing of an earlier run survives but the files.
StartOfRun ==
    /\ pc = "import"
    /\ status = "running"
    /\ frame = NoFrame
    /\ img = NoImage
    /\ img2 = NoImage
    /\ out = <<>>
    /\ ev = <<>>
    /\ written = {}

Init ==
    /\ StartOfRun
    /\ pil \in BOOLEAN
    /\ dir \in {"ok", "readonly", "missing"}
    /\ InitFiles
    /\ before = files
    /\ prev = NoPrev
    /\ run = 1

\* An exception nothing catches: the interpreter prints the traceback and
\* exits non-zero.  Nothing is undone.
Raise ==
    /\ status' = "error"
    /\ pc' = "error"

\* try: from PIL import Image, ImageDraw, ImageFont / except ImportError:
Import ==
    /\ pc = "import"
    /\ pc' = IF pil THEN "new_img" ELSE "print_nopil"
    /\ ev' = Append(ev, Event("import", "PIL"))
    /\ UNCHANGED <<status, pil, dir, files, frame, img, img2, out, written, before, prev, run>>

\* print("PIL not available, creating simple files")
PrintNoPil ==
    /\ pc = "print_nopil"
    /\ out' = Append(out, "PIL not available, creating simple files")
    /\ pc' = "def"
    /\ UNCHANGED <<status, pil, dir, files, frame, img, img2, ev, written, before, prev, run>>

\* import struct; def create_simple_png(width, height, color, filename): ...
Define ==
    /\ pc = "def"
    /\ pc' = "call1"
    /\ UNCHANGED <<status, pil, dir, files, frame, img, img2, out, ev, written, before, prev, run>>

\* create_simple_png(192, 192, ...) and create_simple_png(32, 32, ...): the call.
Call ==
    /\ pc \in {"call1", "call2"}
    /\ LET n == IF pc = "call1" THEN 1 ELSE 2
           a == FallbackCalls[n]
       IN  /\ frame' = [active |-> TRUE, width |-> a.width, height |-> a.height,
                        color |-> a.color, filename |-> a.filename, k |-> 0, pos |-> 0,
                        ret |-> IF n = 1 THEN "call2" ELSE "print_created"]
           /\ ev' = Append(ev, Event("create_simple_png", a.filename))
    /\ pc' = "open"
    /\ UNCHANGED <<status, pil, dir, files, img, img2, out, written, before, prev, run>>

\* Mutant of CspOpen: a failed open is swallowed and the call returns.
CspOpenSwallow ==
    /\ pc = "open"
    /\ IF CanOpen(frame.filename)
       THEN /\ files' = [files EXCEPT ![frame.filename] = Truncated(frame.filename)]
            /\ frame' = [frame EXCEPT !.k = 1, !.pos = 0]
            /\ ev' = Append(ev, Event("open", frame.filename))
            /\ pc' = "write"
       ELSE /\ pc' = frame.ret
            /\ frame' = NoFrame
            /\ UNCHANGED <<files, ev>>
    /\ UNCHANGED <<status, pil, dir, img, img2, out, written, before, prev, run>>

\* Mutant of CspOpen: exclusive creation (mode 'xb'), which refuses a file
\* that is already there.
CspOpenExclusive ==
    /\ pc = "open"
    /\ IF CanOpen(frame.filename) /\ ~files[frame.filename].exists
       THEN /\ files' = [files EXCEPT ![frame.filename] = Truncated(frame.filename)]
            /\ frame' = [frame EXCEPT !.k = 1, !.pos = 0]
            /\ ev' = Append(ev, Event("open", frame.filename))
            /\ pc' = "write"
            /\ UNCHANGED status
       ELSE /\ Raise
            /\ UNCHANGED <<files, frame, ev>>
    /\ UNCHANGED <<pil, dir, img, img2, out, written, before, prev, run>>

\* with open(filename, 'wb') as f:
CspOpen ==
    /\ pc = "open"
    /\ IF CanOpen(frame.filename)
       THEN /\ files' = [files EXCEPT ![frame.filename] = Truncated(frame.filename)]
            /\ frame' = [frame EXCEPT !.k = 1, !.pos = 0]
            /\ ev' = Append(ev, Event("open", frame.filename))
            /\ pc' = "write"
            /\ UNCHANGED status
       ELSE /\ Raise
            /\ UNCHANGED <<files, frame, ev>>
    /\ UNCHANGED <<pil, dir, img, img2, out, written, before, prev, run>>

\* f.write(...): the nine writes of the body, one at a time.
CspWrite ==
    /\ pc = "write"
    /\ LET data == Chunk(frame.k, frame.width, frame.height, frame.color)
       IN  /\ files' = [files EXCEPT ![frame.filename].bytes = WriteAt(@, frame.pos, data)]
           /\ frame' = [frame EXCEPT !.k = @ + 1, !.pos = @ + Len(data)]
    /\ pc' = IF frame.k = NumChunks THEN "close" ELSE "write"
    /\ UNCHANGED <<status, pil, dir, img, img2, out, ev, written, before, prev, run>>

\* The end of the with block closes f; the call returns.
CspClose ==
    /\ pc = "close"
    /\ written' = written \cup {frame.filename}
    /\ ev' = Append(ev, Event("close", frame.filename))
    /\ pc' = frame.ret
    /\ frame' = NoFrame
    /\ UNCHANGED <<status, pil, dir, files, img, img2, out, before, prev, run>>

\* print("Simple PNG files created")
PrintCreated ==
    /\ pc = "print_created"
    /\ out' = Append(out, "Simple PNG files created")
    /\ pc' = "exit"
    /\ UNCHANGED <<status, pil, dir, files, frame, img, img2, ev, written, before, prev, run>>

\* Mutant of Exit: the exit() is missing and control falls through to line 33.
ExitFallThrough ==
    /\ pc = "exit"
    /\ pc' = "new_img"
    /\ UNCHANGED <<status, pil, dir, files, frame, img, img2, out, ev, written, before, prev, run>>

\* exit()
Exit ==
    /\ pc = "exit"
    /\ status' = "exit0"
    /\ pc' = "done"
    /\ UNCHANGED <<pil, dir, files, frame, img, img2, out, ev, written, before, prev, run>>

\* img = Image.new('RGB', (192, 192), color='#0078D4'); draw = ImageDraw.Draw(img)
NewImg ==
    /\ pc = "new_img"
    /\ img' = ImageNew("RGB", <<192, 192>>, Blue)
    /\ ev' = Append(ev, Event("Image.new", "img"))
    /\ pc' = "draw_head"
    /\ UNCHANGED <<status, pil, dir, files, frame, img2, out, written, before, prev, run>>

\* draw.ellipse([76, 56, 116, 96], fill='white')
DrawHead ==
    /\ pc = "draw_head"
    /\ img' = Paint(img, EllipseFill(<<76, 56, 116, 96>>), WhiteRGB)
    /\ ev' = Append(ev, Event("draw", "img"))
    /\ pc' = "draw_hole"
    /\ UNCHANGED <<status, pil, dir, files, frame, img2, out, written, before, prev, run>>

\* draw.ellipse([86, 66, 106, 86], fill='#0078D4')
DrawHole ==
    /\ pc = "draw_hole"
    /\ img' = Paint(img, EllipseFill(<<86, 66, 106, 86>>), Blue)
    /\ ev' = Append(ev, Event("draw", "img"))
    /\ pc' = "draw_point"
    /\ UNCHANGED <<status, pil, dir, files, frame, img2, out, written, before, prev, run>>

\* draw.polygon([(96, 96), (86, 116), (106, 116)], fill='white')
DrawPoint ==
    /\ pc = "draw_point"
    /\ img' = Paint(img, PolygonFill(<< <<96, 96>>, <<86, 116>>, <<106, 116>> >>), WhiteRGB)
    /\ ev' = Append(ev, Event("draw", "img"))
    /\ pc' = "save_color"
    /\ UNCHANGED <<status, pil, dir, files, frame, img2, out, written, before, prev, run>>

\* image.save(path): the file is opened for writing (created or truncated) and
\* holds the encoded image; a path that cannot be opened raises.
Saved(im) ==
    [exists |-> TRUE, writable |-> TRUE, kind |-> "image", bytes |-> <<>>, image |-> im]

\* Mutant of SaveColor: a failed save is swallowed and the script goes on.
SaveColorSwallow ==
    /\ pc = "save_color"
    /\ IF CanOpen(ColorPath)
       THEN /\ files' = [files EXCEPT ![ColorPath] = Saved(img)]
            /\ written' = written \cup {ColorPath}
            /\ ev' = Append(ev, Event("save", ColorPath))
       ELSE UNCHANGED <<files, written, ev>>
    /\ pc' = "print_color"
    /\ UNCHANGED <<status, pil, dir, frame, img, img2, out, before, prev, run>>

\* img.save('teams-package/color.png')
SaveColor ==
    /\ pc = "save_color"
    /\ IF CanOpen(ColorPath)
       THEN /\ files' = [files EXCEPT ![ColorPath] = Saved(img)]
            /\ written' = written \cup {ColorPath}
            /\ ev' = Append(ev, Event("save", ColorPath))
            /\ pc' = "print_color"
            /\ UNCHANGED status
       ELSE /\ Raise
            /\ UNCHANGED <<files, written, ev>>
    /\ UNCHANGED <<pil, dir, frame, img, img2, out, before, prev, run>>

\* print("Color icon saved: teams-package/color.png")
PrintColor ==
    /\ pc = "print_color"
    /\ out' = Append(out, "Color icon saved: teams-package/color.png")
    /\ pc' = "new_img2"
    /\ UNCHANGED <<status, pil, dir, files, frame, img, img2, ev, written, before, prev, run>>

\* img2 = Image.new('RGBA', (32, 32), color=(0, 0, 0, 0)); draw2 = ImageDraw.Draw(img2)
NewImg2 ==
    /\ pc = "new_img2"
    /\ img2' = ImageNew("RGBA", <<32, 32>>, Transparent)
    /\ ev' = Append(ev, Event("Image.new", "img2"))
    /\ pc' = "draw2_ring"
    /\ UNCHANGED <<status, pil, dir, files, frame, img, out, written, before, prev, run>>

\* Mutant of Draw2Ring: a wider bounding box, [12, 8, 22, 16].
Draw2RingWide ==
    /\ pc = "draw2_ring"
    /\ img2' = Paint(img2, EllipseOutline(<<12, 8, 22, 16>>, 2), WhiteRGBA)
    /\ ev' = Append(ev, Event("draw", "img2"))
    /\ pc' = "draw2_point"
    /\ UNCHANGED <<status, pil, dir, files, frame, img, out, written, before, prev, run>>

\* draw2.ellipse([12, 8, 20, 16], outline='white', width=2)
Draw2Ring ==
    /\ pc = "draw2_ring"
    /\ img2' = Paint(img2, EllipseOutline(<<12, 8, 20, 16>>, 2), WhiteRGBA)
    /\ ev' = Append(ev, Event("draw", "img2"))
    /\ pc' = "draw2_point"
    /\ UNCHANGED <<status, pil, dir, files, frame, img, out, written, before, prev, run>>

\* draw2.polygon([(16, 16), (14, 20), (18, 20)], fill='white')
Draw2Point ==
    /\ pc = "draw2_point"
    /\ img2' = Paint(img2, PolygonFill(<< <<16, 16>>, <<14, 20>>, <<18, 20>> >>), WhiteRGBA)
    /\ ev' = Append(ev, Event("draw", "img2"))
    /\ pc' = "save_outline"
    /\ UNCHANGED <<status, pil, dir, files, frame, img, out, written, before, prev, run>>

\* Mutant of SaveOutline: a failed save puts color.png back as it was.
SaveOutlineRollback ==
    /\ pc = "save_outline"
    /\ IF CanOpen(OutlinePath)
       THEN /\ files' = [files EXCEPT ![OutlinePath] = Saved(img2)]
            /\ written' = written \cup {OutlinePath}
            /\ ev' = Append(ev, Event("save", OutlinePath))
            /\ pc' = "print_outline"
            /\ UNCHANGED status
       ELSE /\ Raise
            /\ files' = [files EXCEPT ![ColorPath] = before[ColorPath]]
            /\ UNCHANGED <<written, ev>>
    /\ UNCHANGED <<pil, dir, frame, img, img2, out, before, prev, run>>

\* img2.save('teams-package/outline.png')
SaveOutline ==
    /\ pc = "save_outline"
    /\ IF CanOpen(OutlinePath)
       THEN /\ files' = [files EXCEPT ![OutlinePath] = Saved(img2)]
            /\ written' = written \cup {OutlinePath}
            /\ ev' = Append(ev, Event("save", OutlinePath))
            /\ pc' = "print_outline"
            /\ UNCHANGED status
       ELSE /\ Raise
            /\ UNCHANGED <<files, written, ev>>
    /\ UNCHANGED <<pil, dir, frame, img, img2, out, before, prev, run>>

\* print("Outline icon saved: teams-package/outline.png")
PrintOutline ==
    /\ pc = "print_outline"
    /\ out' = Append(out, "Outline icon saved: teams-package/outline.png")
    /\ pc' = "print_success"
    /\ UNCHANGED <<status, pil, dir, files, frame, img, img2, ev, written, before, prev, run>>

\* print("Icons created successfully!")
PrintSuccess ==
    /\ pc = "print_success"
    /\ out' = Append(out, "Icons created successfully!")
    /\ pc' = "end"
    /\ UNCHANGED <<status, pil, dir, files, frame, img, img2, ev, written, before, prev, run>>

\* The end of the file: the interpreter exits with status 0.
EndOfScript ==
    /\ pc = "end"
    /\ status' = "exit0"
    /\ pc' = "done"
    /\ UNCHANGED <<pil, dir, files, frame, img, img2, out, ev, written, before, prev, run>>

\* The script is invoked again: a new process, the same directory.  Whether
\* PIL can be imported is probed anew.
Restart ==
    /\ status # "running"
    /\ run < MaxRuns
    /\ run' = run + 1
    /\ prev' = [status |-> status, pil |-> pil, files |-> files]
    /\ before' = files
    /\ pil' \in BOOLEAN
    /\ pc' = "import"
    /\ status' = "running"
    /\ frame' = NoFrame
    /\ img' = NoImage
    /\ img2' = NoImage
    /\ out' = <<>>
    /\ ev' = <<>>
    /\ written' = {}
    /\ UNCHANGED <<dir, files>>

Next ==
    \/ Import
    \/ PrintNoPil
    \/ Define
    \/ Call
    \/ CspOpen
    \/ CspWrite
    \/ CspClose
    \/ PrintCreated
    \/ Exit
    \/ NewImg
    \/ DrawHead
    \/ DrawHole
    \/ DrawPoint
    \/ SaveColor
    \/ PrintColor
    \/ NewImg2
    \/ Draw2Ring
    \/ Draw2Point
    \/ SaveOutline
    \/ PrintOutline
    \/ PrintSuccess
    \/ EndOfScript
    \/ Restart

Spec == Init /\ [][Next]_vars

(* ------------------- create_simple_png on any arguments ------------------ *)

\* Sample widths and heights: each byte of the field used, up to 2^31 - 1.
Dims == {0, 1, 32, 192, 255, 256, 65535, 65536, 16777216, 2147483647}

Colors == {<<0, 120, 212>>, <<255, 255, 255>>}

\* A call create_simple_png(width, height, color, filename) about to run, with
\* any arguments, on any state of the file.
PngInit ==
    /\ pc = "open"
    /\ status = "running"
    /\ pil = FALSE
    /\ dir \in {"ok", "missing"}
    /\ InitFiles
    /\ \E w \in Dims, h \in Dims, c \in Colors, fn \in Paths :
          frame = [active |-> TRUE, width |-> w, height |-> h, color |-> c,
                   filename |-> fn, k |-> 0, pos |-> 0, ret |-> "returned"]
    /\ img = NoImage
    /\ img2 = NoImage
    /\ out = <<>>
    /\ ev = <<>>
    /\ written = {}
    /\ before = files
    /\ prev = NoPrev
    /\ run = 1

\* The script's runs, and besides them the function on its own.
SpecPng == (Init \/ PngInit) /\ [][Next]_vars

(* ------------------------------ properties ------------------------------ *)

Did(op, arg) == \E i \in 1..Len(ev) : ev[i] = Event(op, arg)

Count(op) == Cardinality({i \in 1..Len(ev) : ev[i].op = op})

Printed(line) == \E i \in 1..Len(out) : out[i] = line

\* What the nine writes of create_simple_png(width, height, color, _) amount
\* to on an empty file.
PngBytes(width, height, color) ==
    Chunk(1, width, height, color) \o Chunk(2, width, height, color)
        \o Chunk(3, width, height, color) \o Chunk(4, width, height, color)
        \o Chunk(5, width, height, color) \o Chunk(6, width, height, color)
        \o Chunk(7, width, height, color) \o Chunk(8, width, height, color)
        \o Chunk(9, width, height, color)

Placeholder(bytes) ==
    [exists |-> TRUE, writable |-> TRUE, kind |-> "bytes", bytes |-> bytes, image |-> NoImage]

PrimaryOps == {"Image.new", "draw", "save"}

FallbackOps == {"create_simple_png", "open", "close"}

PrimaryPcs == {"new_img", "draw_head", "draw_hole", "draw_point", "save_color",
               "print_color", "new_img2", "draw2_ring", "draw2_point", "save_outline",
               "print_outline", "print_success", "end"}

FallbackPcs == {"print_nopil", "def", "call1", "call2", "open", "write", "close",
                "print_created", "exit"}

\* C1: in either path, a run that completes normally has written both
\* teams-package/color.png and teams-package/outline.png itself: both exist and
\* hold what this run produced.
C1_BothWritten ==
    status = "exit0" =>
        /\ written = Paths
        /\ \A p \in Paths : files[p].exists
        /\ pil => /\ files[ColorPath] = Saved(img)
                  /\ files[OutlinePath] = Saved(img2)
        /\ ~pil => \A p \in Paths : /\ files[p].kind = "bytes"
                                    /\ Did("open", p)
                                    /\ Did("close", p)

\* Both paths have completed normally: this run with PIL, the one before without.
C1_Witness ==
    /\ status = "exit0" /\ pil /\ written = Paths
    /\ prev.status = "exit0" /\ ~prev.pil

\* C2: the probe runs once per run and the paths exclude each other: without
\* PIL no Image.new, draw or save is ever executed, with PIL create_simple_png
\* never is, and no run executes operations of both paths.
C2_Exclusive ==
    /\ Count("import") = (IF pc = "import" THEN 0 ELSE 1)
    /\ ~pil => /\ \A i \in 1..Len(ev) : ev[i].op \notin PrimaryOps
               /\ pc \notin PrimaryPcs
               /\ img = NoImage /\ img2 = NoImage
    /\ pil => /\ \A i \in 1..Len(ev) : ev[i].op \notin FallbackOps
              /\ pc \notin FallbackPcs
              /\ frame = NoFrame
    /\ ~(\E i, j \in 1..Len(ev) : ev[i].op \in PrimaryOps /\ ev[j].op \in FallbackOps)

\* The fallback path has run to its exit() after both calls.
C2_Witness ==
    /\ ~pil /\ status = "exit0" /\ Count("create_simple_png") = 2

\* C3: when create_simple_png(width, height, color, filename) has done its
\* writes, the file begins with 89 50 4E 47 0D 0A 1A 0A and its bytes 16-19 and
\* 20-23 (counted from 0) read big-endian as width and height; the script's two
\* calls give (192, 192) in color.png and (32, 32) in outline.png.
C3_Header ==
    /\ pc = "close" =>
          LET b == files[frame.filename].bytes
          IN  /\ SubSeq(b, 1, 8) = <<137, 80, 78, 71, 13, 10, 26, 10>>
              /\ UnpackI(SubSeq(b, 17, 20)) = frame.width
              /\ UnpackI(SubSeq(b, 21, 24)) = frame.height
    /\ (~pil /\ status = "exit0") =>
          /\ SubSeq(files[ColorPath].bytes, 1, 8) = <<137, 80, 78, 71, 13, 10, 26, 10>>
          /\ SubSeq(files[OutlinePath].bytes, 1, 8) = <<137, 80, 78, 71, 13, 10, 26, 10>>
          /\ UnpackI(SubSeq(files[ColorPath].bytes, 17, 20)) = 192
          /\ UnpackI(SubSeq(files[ColorPath].bytes, 21, 24)) = 192
          /\ UnpackI(SubSeq(files[OutlinePath].bytes, 17, 20)) = 32
          /\ UnpackI(SubSeq(files[OutlinePath].bytes, 21, 24)) = 32

\* A call with a width that fills all four bytes and a height that does not,
\* over a longer stale file, has done its writes.
C3_Witness ==
    /\ pc = "close"
    /\ frame.width = 2147483647 /\ frame.height = 65536
    /\ Len(before[frame.filename].bytes) > 45

\* C4: outline.png is a 32x32 image that can carry alpha in both paths: RGBA
\* in the primary path, and in the fallback path a header whose colour type has
\* an alpha channel (4 or 6), unlike the colour type of the color.png placeholder.
C4_OutlineAlphaCapable ==
    OutlinePath \in written =>
        IF pil
        THEN /\ files[OutlinePath].image.mode = "RGBA"
             /\ files[OutlinePath].image.size = <<32, 32>>
        ELSE /\ UnpackI(SubSeq(files[OutlinePath].bytes, 17, 20)) = 32
             /\ UnpackI(SubSeq(files[OutlinePath].bytes, 21, 24)) = 32
             /\ files[OutlinePath].bytes[26] \in {4, 6}
             /\ SubSeq(files[OutlinePath].bytes, 25, 29) # SubSeq(files[ColorPath].bytes, 25, 29)

\* C5 as stated: in the fallback path no call ever raises, whatever the state
\* of teams-package/.
C5_AlwaysSucceeds ==
    ~pil => status # "error"

\* C5 amended: in the fallback path a call raises exactly when open() cannot
\* open its file (teams-package/ missing, the file read-only, or the file absent
\* in a read-only directory); when both files can be opened no call raises, the
\* run never stops before its exit(), and it has printed the notice when it exits.
C5_SucceedsWhenOpenable ==
    (~pil /\ pc # "import") =>
        /\ status = "error" <=> (pc = "error" /\ frame.active /\ ~CanOpen(frame.filename))
        /\ (\A p \in Paths : CanOpen(p)) =>
              /\ status # "error"
              /\ status = "running" => ENABLED Next
              /\ status = "exit0" => /\ Printed("Simple PNG files created")
                                     /\ Count("close") = 2

\* The fallback path has exited normally over files that were there before.
C5_Witness ==
    /\ ~pil /\ status = "exit0" /\ run = 1
    /\ \A p \in Paths : before[p].exists

\* C6: in the primary path with teams-package/ missing the run aborts at the
\* first save with nothing printed and never completes normally; and in any
\* run a "saved" line is printed only after that file's save, the success
\* notice only after both.
C6_NoFalseSuccess ==
    /\ (pil /\ dir = "missing") =>
          /\ out = <<>>
          /\ status # "exit0"
          /\ pc \in {"import", "new_img", "draw_head", "draw_hole", "draw_point",
                     "save_color", "error"}
          /\ pc = "error" => (Did("draw", "img") /\ img2 = NoImage /\ written = {})
    /\ Printed("Color icon saved: teams-package/color.png") =>
          (Did("save", ColorPath) /\ files[ColorPath] = Saved(img))
    /\ Printed("Outline icon saved: teams-package/outline.png") =>
          (Did("save", OutlinePath) /\ files[OutlinePath] = Saved(img2))
    /\ Printed("Icons created successfully!") =>
          (Did("save", ColorPath) /\ Did("save", OutlinePath))

\* The primary path has aborted on a missing directory.
C6_Witness ==
    /\ pil /\ dir = "missing" /\ status = "error"

\* C7: in either path, when the run aborts after color.png was written, the
\* file keeps what this run wrote: it is neither restored nor removed (and
\* outline.png is as it was).
C7_NoRollback ==
    (status = "error" /\ ColorPath \in written) =>
        /\ files[ColorPath] = (IF pil THEN Saved(img)
                               ELSE Placeholder(PngBytes(192, 192, <<0, 120, 212>>)))
        /\ OutlinePath \notin written
        /\ files[OutlinePath] = before[OutlinePath]

\* The second write has failed after the first replaced an older file, in the
\* primary path in this run and in the fallback path in the run before.
C7_Witness ==
    /\ status = "error" /\ pil /\ ColorPath \in written
    /\ files[ColorPath] # before[ColorPath]
    /\ prev.status = "error" /\ ~prev.pil
    /\ prev.files[ColorPath] = Placeholder(PngBytes(192, 192, <<0, 120, 212>>))

\* C8: color.png is written before outline.png: every operation on
\* outline.png or on its canvas img2 comes after the write of color.png has
\* completed.
C8_ColorFirst ==
    /\ \A i \in 1..Len(ev) :
          ev[i].arg \in {OutlinePath, "img2"} =>
              \E j \in 1..(i - 1) :
                  ev[j] \in {Event("close", ColorPath), Event("save", ColorPath)}
    /\ (img2 # NoImage \/ files[OutlinePath] # before[OutlinePath] \/ OutlinePath \in written)
          => ColorPath \in written
    /\ (frame.active /\ frame.filename = OutlinePath) => ColorPath \in written

\* Both files have been written, in the fallback path.
C8_Witness ==
    /\ ~pil /\ written = Paths /\ Did("open", OutlinePath)

\* C9: a completed fallback run leaves exactly the bytes that width and height
\* determine (whatever the color argument, whatever the files held before), so
\* a second fallback run leaves both files as the first left them.
C9_Idempotent ==
    (status = "exit0" /\ ~pil) =>
        /\ \A c \in Colors \cup {<<1, 2, 3>>} :
              /\ files[ColorPath] = Placeholder(PngBytes(192, 192, c))
              /\ files[OutlinePath] = Placeholder(PngBytes(32, 32, c))
        /\ Len(files[ColorPath].bytes) = 45
        /\ (prev.status = "exit0" /\ ~prev.pil) => files = prev.files

\* Two fallback runs in succession have completed.
C9_Witness ==
    /\ status = "exit0" /\ ~pil /\ prev.status = "exit0" /\ ~prev.pil

Drawn2 == pc \in {"save_outline", "print_outline", "print_success", "end", "done"}

InPinBox(p) == p[1] \in 12..20 /\ p[2] \in 8..20

\* C10: the outline canvas is 32x32 RGBA, transparent when created; after the
\* two draws pixel (0,0) and every pixel outside x in 12..20, y in 8..20 has
\* alpha 0, the pixels with alpha > 0 are opaque white and there is one; the
\* color canvas is 192x192 RGB, without alpha.
C10_OutlinePixels ==
    /\ img2 # NoImage =>
          /\ img2.mode = "RGBA" /\ img2.size = <<32, 32>>
          /\ Alpha(img2, <<0, 0>>) = 0
          /\ \A p \in Canvas(img2) :
                /\ ~InPinBox(p) => Alpha(img2, p) = 0
                /\ Alpha(img2, p) > 0 => Pixel(img2, p) = <<255, 255, 255, 255>>
          /\ pc = "draw2_ring" => \A p \in Canvas(img2) : Alpha(img2, p) = 0
          /\ Drawn2 => \E p \in Canvas(img2) : Alpha(img2, p) > 0
    /\ img # NoImage =>
          /\ img.mode = "RGB" /\ img.size = <<192, 192>>
          /\ Len(img.bg) = 3
          /\ \A p \in DOMAIN img.px : Len(img.px[p]) = 3

\* The outline icon has been drawn and saved.
C10_Witness ==
    /\ pil /\ Drawn2 /\ OutlinePath \in written /\ files[OutlinePath] = Saved(img2)

=============================================================================
